---- MODULE Spec2Model ----
(***************************************************************************)
(* QuantFlow AI: real-time trading signals.                                *)
(*                                                                         *)
(* server.ts   the feedback store, the synthetic market, analyzeAsset, the *)
(*             POST /api/feedback endpoint, the market tick and the        *)
(*             SCAN_MARKET handler of each WebSocket connection; then the  *)
(*             React client (App) and src/indicators.ts.                   *)
(*                                                                         *)
(* Prices are integers (one unit = 0.00001); wall-clock time is in         *)
(* milliseconds, as Date.now() gives it.  Quotients the code computes in   *)
(* floating point (averages, the RSI, the MACD) are kept as exact          *)
(* numerator/denominator pairs, so that every comparison the code makes    *)
(* is decided exactly and no rounding is invented.                         *)
(***************************************************************************)
EXTENDS Integers, Sequences, FiniteSets, TLC

(***************************************************************************)
(* Optional values: the code's null / undefined is the empty tuple, a      *)
(* present value x is <<x>>.                                               *)
(***************************************************************************)
NULL == <<>>
Some(x) == <<x>>
Val(o) == o[1]

Max(a, b) == IF a >= b THEN a ELSE b
Min(a, b) == IF a <= b THEN a ELSE b

RECURSIVE SumSeq(_)
SumSeq(s) == IF s = <<>> THEN 0 ELSE Head(s) + SumSeq(Tail(s))

\* Array.prototype.slice(-n): the last n elements (all of them when n >= length).
SliceLast(s, n) == IF Len(s) <= n THEN s ELSE SubSeq(s, Len(s) - n + 1, Len(s))
\* Array.prototype.slice(0, n): the first n elements.
SliceFirst(s, n) == SubSeq(s, 1, Min(n, Len(s)))

Includes(s, x) == \E i \in 1..Len(s) : s[i] = x

IsPrefix(s, t) == Len(s) <= Len(t) /\ SubSeq(t, 1, Len(s)) = s

(***************************************************************************)
(* Bounds of the model.                                                    *)
(***************************************************************************)
\* Candles kept per asset (the code seeds 100; the indicators need 26).
WindowLen == 26
\* Records of a feedback file loaded at startup (the code sets no limit).
HistLen == 21
\* The newest close lies within MaxDrift units of where its shape puts it.
MaxDrift == 1
\* Clicks of the user, market ticks and clock steps in one run.
MaxEvents == 4
\* Minutes of wall-clock time one run of the system spans.
MaxElapsed == 5
\* Call times span the minutes 0..MaxMinute after 10:00 local time.
MaxMinute == 64
\* Candles of the longest window handed to detectFractal on its own.
MaxFractalLen == 6
\* Candles of the longest window of closes around zero.
MaxTrendLen == 17

(***************************************************************************)
(* Exact non-negative integers of any size, little-endian in base 10^4:    *)
(* Wilder's smoothing divides by the period at every step, so the exact    *)
(* averages have denominators period^k, beyond machine integers.           *)
(***************************************************************************)
LimbBase == 100 * 100
\* 14^(WindowLen - 14) times a price difference fits (4 digits a limb)
NumLimbs == ((WindowLen - 13) \div 3) + 2

BigOfNat(n) ==
    [i \in 1..NumLimbs |->
        IF i = 1 THEN n % LimbBase
        ELSE IF i = 2 THEN (n \div LimbBase) % LimbBase
        ELSE IF i = 3 THEN n \div (LimbBase * LimbBase)
        ELSE 0]

RECURSIVE BigMulFrom(_, _, _, _)
BigMulFrom(a, k, i, carry) ==
    IF i > Len(a) THEN <<>>
    ELSE LET v == a[i] * k + carry
         IN  <<v % LimbBase>> \o BigMulFrom(a, k, i + 1, v \div LimbBase)

\* a * k for a machine integer 0 <= k < LimbBase
BigMul(a, k) == BigMulFrom(a, k, 1, 0)

RECURSIVE BigAddFrom(_, _, _, _)
BigAddFrom(a, b, i, carry) ==
    IF i > Len(a) THEN <<>>
    ELSE LET v == a[i] + b[i] + carry
         IN  <<v % LimbBase>> \o BigAddFrom(a, b, i + 1, v \div LimbBase)

BigAdd(a, b) == BigAddFrom(a, b, 1, 0)

BigIsZero(a) == \A i \in 1..Len(a) : a[i] = 0

\* a < b
BigLess(a, b) ==
    \E i \in 1..Len(a) :
        /\ a[i] < b[i]
        /\ \A j \in (i + 1)..Len(a) : a[j] = b[j]

(***************************************************************************)
(* src/indicators.ts                                                       *)
(***************************************************************************)
\* calculateSMA: null below `period` values, else the mean of the last
\* `period` values, kept as the pair sum / period.
calculateSMA(data, period) ==
    IF Len(data) < period THEN NULL
    ELSE Some([sum |-> SumSeq(SliceLast(data, period)), period |-> period])

\* calculateEMA with previousEMA = null, the only way the code calls it:
\* the SMA of the FIRST `period` values.
calculateEMA(data, period) ==
    IF Len(data) < period THEN NULL
    ELSE calculateSMA(SliceFirst(data, period), period)

\* The smoothing loop of calculateRSI, from 1-based position i to the end:
\* avgGain = g / scale, avgLoss = l / scale.
RECURSIVE RsiSmooth(_, _, _, _, _, _)
RsiSmooth(closes, period, i, g, l, scale) ==
    IF i > Len(closes) THEN [avgGain |-> g, avgLoss |-> l, scale |-> scale]
    ELSE LET diff == closes[i] - closes[i - 1]
             gain == IF diff >= 0 THEN diff ELSE 0
             loss == IF diff < 0 THEN -diff ELSE 0
         IN  RsiSmooth(closes, period, i + 1,
                       BigAdd(BigMul(g, period - 1), BigMul(scale, gain)),
                       BigAdd(BigMul(l, period - 1), BigMul(scale, loss)),
                       BigMul(scale, period))

\* calculateRSI: null unless more than `period` closes.  The value is
\* 100 when avgLoss = 0, else 100 - 100 / (1 + avgGain / avgLoss); the model
\* keeps the two averages, which decide every comparison with 50.
calculateRSI(closes, period) ==
    IF Len(closes) <= period THEN NULL
    ELSE LET d(i) == closes[i + 1] - closes[i]
             gains == SumSeq([i \in 1..period |-> IF d(i) >= 0 THEN d(i) ELSE 0])
             losses == SumSeq([i \in 1..period |-> IF d(i) < 0 THEN -d(i) ELSE 0])
         IN  Some(RsiSmooth(closes, period, period + 2,
                            BigOfNat(gains), BigOfNat(losses), BigOfNat(period)))

\* rsi > 50 and rsi < 50 for a present RSI
RsiAbove50(r) == BigIsZero(r.avgLoss) \/ BigLess(r.avgLoss, r.avgGain)
RsiBelow50(r) == ~BigIsZero(r.avgLoss) /\ BigLess(r.avgGain, r.avgLoss)

\* What the model keeps of an RSI once it is stored: the side of 50 it is on
RsiSide(rsi) ==
    IF rsi = NULL THEN NULL
    ELSE Some(IF RsiAbove50(Val(rsi)) THEN "above 50"
              ELSE IF RsiBelow50(Val(rsi)) THEN "below 50" ELSE "50")

\* calculateMACD: all null below 26 closes.  value = ema12 - ema26,
\* signal = 0.2 * value, histogram = value - signal; the three fields are
\* kept multiplied by 12 * 26 * 5.
calculateMACD(closes) ==
    LET result == [value |-> NULL, signal |-> NULL, histogram |-> NULL]
    IN  IF Len(closes) < 26 THEN result
        ELSE LET ema12 == calculateEMA(closes, 12)
                 ema26 == calculateEMA(closes, 26)
             IN  IF ema12 # NULL /\ ema26 # NULL
                 THEN LET diff312 == 26 * Val(ema12).sum - 12 * Val(ema26).sum
                          macdValue == 5 * diff312
                          signal == diff312
                      IN  [value |-> Some(macdValue),
                           signal |-> Some(signal),
                           histogram |-> Some(macdValue - signal)]
                 ELSE result

\* detectTrend: !sma16 is true of null and of 0
detectTrend(closes, sma16) ==
    IF sma16 = NULL \/ Val(sma16).sum = 0 \/ Len(closes) < 2 THEN "neutral"
    ELSE LET lastClose == closes[Len(closes)]
         IN  IF lastClose * Val(sma16).period > Val(sma16).sum THEN "up"
             ELSE IF lastClose * Val(sma16).period < Val(sma16).sum THEN "down"
             ELSE "neutral"

\* detectFractal looking for the bottom first
detectFractalBottomFirst(candles) ==
    IF Len(candles) < 5 THEN NULL
    ELSE LET i == Len(candles) - 2
             prev2 == candles[i - 2]
             prev1 == candles[i - 1]
             curr == candles[i]
             next1 == candles[i + 1]
             next2 == candles[i + 2]
         IN  IF /\ curr.low < prev2.low /\ curr.low < prev1.low
                /\ curr.low < next1.low /\ curr.low < next2.low
             THEN Some("bottom")
             ELSE IF /\ curr.high > prev2.high /\ curr.high > prev1.high
                     /\ curr.high > next1.high /\ curr.high > next2.high
             THEN Some("top")
             ELSE NULL

\* detectFractal: the candle three from the end against two on each side
detectFractal(candles) ==
    IF Len(candles) < 5 THEN NULL
    ELSE LET i == Len(candles) - 2
             prev2 == candles[i - 2]
             prev1 == candles[i - 1]
             curr == candles[i]
             next1 == candles[i + 1]
             next2 == candles[i + 2]
         IN  IF /\ curr.high > prev2.high /\ curr.high > prev1.high
                /\ curr.high > next1.high /\ curr.high > next2.high
             THEN Some("top")
             ELSE IF /\ curr.low < prev2.low /\ curr.low < prev1.low
                     /\ curr.low < next1.low /\ curr.low < next2.low
             THEN Some("bottom")
             ELSE NULL

(***************************************************************************)
(* server.ts: the assets and the state of the server and of the client.    *)
(***************************************************************************)
\* Three of the 35 entries of ASSETS, in the order of the array.
ASSETS ==
    << [name |-> "EURUSD", type |-> "REAL"],
       [name |-> "EURUSD-OTC", type |-> "OTC"],
       [name |-> "BTCUSD", type |-> "REAL"] >>

AssetNames == {ASSETS[i].name : i \in 1..Len(ASSETS)}

\* The connections of the WebSocket server: the App described below and a
\* second client of the same server.
Sessions == {"app", "peer"}

VARIABLES
    now,              \* Date.now(), local wall-clock milliseconds
    marketData,       \* asset name -> [candles, marketType]
    feedbackHistory,  \* the in-memory feedback records, oldest first
    lastSignalInfo,   \* per connection: the pair last selected, or null
    client,           \* the state of the App
    wsIn,             \* per connection: messages on their way to the server
    wsOut,            \* per connection: messages on their way to the client
    lastScan,         \* history: per connection, the last request handled
    events,           \* history: clicks, ticks and clock steps so far
    lastPost,         \* the last POST /api/feedback and its response
    analysis,         \* the last call of analyzeAsset and what it returned
    http              \* the App's fetches: requests and responses on their
                      \* way, and (history) the signals they were sent for

(***************************************************************************)
(* date-fns, as analyzeAsset uses it                                       *)
(***************************************************************************)
MinuteMs == 60 * 1000
startOfMinute(t) == t - (t % MinuteMs)
addMinutes(t, n) == t + n * MinuteMs
getMinutes(t) == (t \div MinuteMs) % 60
setSeconds(t, sec) == t - (((t \div 1000) % 60) * 1000) + sec * 1000
\* format(date, 'HH:mm:ss')
FormatHMS(t) == << (t \div (60 * MinuteMs)) % 24, getMinutes(t), (t \div 1000) % 60 >>

\* Math.ceil(a / b) for a >= 0, b > 0
CeilDiv(a, b) == (a + b - 1) \div b

(***************************************************************************)
(* The synthetic market (lines 80-98): a random walk per asset, each       *)
(* candle opening at the previous close, with the high at or above and     *)
(* the low at or below both.  The model draws the walk from a family of    *)
(* shapes; the candle three from the end may carry a longer wick.  Prices  *)
(* are whole numbers of 0.00001.                                           *)
(***************************************************************************)
BasePrice == 1000 * 100

Shapes == {"up", "down", "flat", "plateau", "valley", "vee", "cap"}
Wicks == {"none", "top", "bottom"}
\* (Math.random() - 0.5) * 0.0004, one draw per asset of ASSETS
TickChanges == {<<1, 1, 1>>, <<-1, -1, -1>>, <<-1, 1, -1>>}
Drifts == (0 - MaxDrift)..MaxDrift
TickRange == Drifts

ShapeClose(shape, i) ==
    CASE shape = "up" -> BasePrice + i
      [] shape = "down" -> BasePrice + WindowLen - i
      [] shape = "flat" -> BasePrice
      [] shape = "plateau" -> BasePrice + Min(i, WindowLen - 16)
      [] shape = "valley" -> BasePrice + Max(WindowLen - 16 - i, 0)
      [] shape = "vee" -> BasePrice + Max(WindowLen - 10 - i, 0)
                          + 5 * Max(i - (WindowLen - 4), 0)
      [] shape = "cap" -> BasePrice - Max(WindowLen - 10 - i, 0)
                          - 5 * Max(i - (WindowLen - 4), 0)

\* Math.random() * 0.0002 at its longest
LongWick == 20 - 1

\* `last` is added to the close of the newest candle
InitialCandles(shape, wick, last) ==
    [i \in 1..WindowLen |->
        LET open == IF i = 1 THEN BasePrice ELSE ShapeClose(shape, i - 1)
            close == ShapeClose(shape, i) + (IF i = WindowLen THEN last ELSE 0)
            up == IF i = WindowLen - 2 /\ wick = "top" THEN LongWick ELSE 1
            dn == IF i = WindowLen - 2 /\ wick = "bottom" THEN LongWick ELSE 1
        IN  [open |-> open,
             high |-> Max(open, close) + up,
             low |-> Min(open, close) - dn,
             close |-> close]]

Windows ==
    {InitialCandles(sh, wk, d) : sh \in Shapes, wk \in Wicks, d \in Drifts}

AssetIndex(name) == CHOOSE i \in 1..Len(ASSETS) : ASSETS[i].name = name
AssetType(name) == ASSETS[AssetIndex(name)].type

(***************************************************************************)
(* getIndicators                                                           *)
(***************************************************************************)
Closes(candles) == [i \in 1..Len(candles) |-> candles[i].close]

\* calculateRSI(closes, 14), each distinct close series worked out once
RsiCache ==
    {<<c, calculateRSI(c, 14)>> :
        c \in {Closes(InitialCandles(sh, "none", d)) :
                  sh \in Shapes, d \in (0 - MaxDrift - 1)..(MaxDrift + 1)}}
CachedRSI(closes) ==
    IF \E p \in RsiCache : p[1] = closes
    THEN (CHOOSE p \in RsiCache : p[1] = closes)[2]
    ELSE calculateRSI(closes, 14)

getIndicators(candles) ==
    LET closes == Closes(candles)
        sma16 == calculateSMA(closes, 16)
    IN  [rsi |-> CachedRSI(closes),
         macd |-> calculateMACD(closes),
         sma16 |-> sma16,
         fractal |-> detectFractal(candles),
         trend |-> detectTrend(closes, sma16)]

(***************************************************************************)
(* analyzeAsset.  The winrate is kept in hundredths of a percent; rnd is   *)
(* Math.random() * 5 in hundredths, 0 <= rnd < 500.                        *)
(***************************************************************************)
\* the buy labels that match, in the order the code pushes them
BuyLabels(ind, lastCandle) ==
    LET buyFractal == ind.fractal = Some("bottom")
        buyRSI == ind.rsi # NULL /\ RsiAbove50(Val(ind.rsi))
        buyMACD == ind.macd.histogram # NULL /\ Val(ind.macd.histogram) > 0
        buySMA == ind.sma16 # NULL
                  /\ lastCandle.close * Val(ind.sma16).period > Val(ind.sma16).sum
        buyTrend == ind.trend = "up"
    IN  (IF buyFractal THEN <<"Fractal Fundo">> ELSE <<>>)
        \o (IF buyRSI THEN <<"RSI > 50">> ELSE <<>>)
        \o (IF buyMACD THEN <<"MACD Positivo">> ELSE <<>>)
        \o (IF buySMA THEN <<"Preco > SMA16">> ELSE <<>>)
        \o (IF buyTrend THEN <<"Tendencia Alta">> ELSE <<>>)

SellLabels(ind, lastCandle) ==
    LET sellFractal == ind.fractal = Some("top")
        sellRSI == ind.rsi # NULL /\ RsiBelow50(Val(ind.rsi))
        sellMACD == ind.macd.histogram # NULL /\ Val(ind.macd.histogram) < 0
        sellSMA == ind.sma16 # NULL
                   /\ lastCandle.close * Val(ind.sma16).period < Val(ind.sma16).sum
        sellTrend == ind.trend = "down"
    IN  (IF sellFractal THEN <<"Fractal Topo">> ELSE <<>>)
        \o (IF sellRSI THEN <<"RSI < 50">> ELSE <<>>)
        \o (IF sellMACD THEN <<"MACD Negativo">> ELSE <<>>)
        \o (IF sellSMA THEN <<"Preco < SMA16">> ELSE <<>>)
        \o (IF sellTrend THEN <<"Tendencia Baixa">> ELSE <<>>)

\* Lines 123-158: the one `confluences` array takes the buy labels, and, when
\* these are fewer than 2, the sell labels after them; each threshold is
\* tested on the length of that one array.
Confluence(ind, lastCandle) ==
    LET buys == BuyLabels(ind, lastCandle)
    IN  IF Len(buys) >= 2 THEN [direction |-> "CALL", confluences |-> buys]
        ELSE LET sells == SellLabels(ind, lastCandle)
                 all == buys \o sells
             IN  [direction |-> IF sells # <<>> /\ Len(all) >= 2
                                THEN "PUT" ELSE "NEUTRAL",
                  confluences |-> all]

\* f.context.confluences.filter(c => confluences.includes(c)).length
OverlapCount(recorded, confluences) ==
    Len(SelectSeq(recorded, LAMBDA c : Includes(confluences, c)))

\* similarLosses.length with the threshold at 60%
SimilarLosses60(assetName, direction, confluences) ==
    LET Similar(f) ==
            /\ f.asset = assetName
            /\ f.result = "loss"
            /\ f.direction = direction
            /\ f.context # NULL
            /\ 10 * OverlapCount(Val(f.context).confluences, confluences)
                  >= 6 * Max(Len(Val(f.context).confluences), Len(confluences))
    IN  Len(SelectSeq(feedbackHistory, Similar))

\* similarLosses.length
SimilarLosses(assetName, direction, confluences) ==
    LET Similar(f) ==
            /\ f.asset = assetName
            /\ f.result = "loss"
            /\ f.direction = direction
            /\ f.context # NULL
            /\ 10 * OverlapCount(Val(f.context).confluences, confluences)
                  >= 7 * Max(Len(Val(f.context).confluences), Len(confluences))
    IN  Len(SelectSeq(feedbackHistory, Similar))

\* the penalty with its sign turned
lossReward(assetName, direction, confluences) ==
    LET n == SimilarLosses(assetName, direction, confluences)
    IN  IF n > 0 THEN n * 5 ELSE 0

lossPenalty(assetName, direction, confluences) ==
    LET n == SimilarLosses(assetName, direction, confluences)
    IN  IF n > 0 THEN -(n * 5) ELSE 0

\* the adjustment over the 21 most recent records of the asset
adjustmentOver21(assetName) ==
    LET recentFeedback ==
            SliceLast(SelectSeq(feedbackHistory, LAMBDA f : f.asset = assetName), 21)
        losses == Len(SelectSeq(recentFeedback, LAMBDA f : f.result = "loss"))
        wins == Len(SelectSeq(recentFeedback, LAMBDA f : f.result = "win"))
    IN  IF losses > wins THEN -((losses - wins) * 2)
        ELSE IF wins > losses THEN (wins - losses) * 1
        ELSE 0

\* the adjustment taking 1 per loss in excess
adjustmentByOne(assetName) ==
    LET recentFeedback ==
            SliceLast(SelectSeq(feedbackHistory, LAMBDA f : f.asset = assetName), 20)
        losses == Len(SelectSeq(recentFeedback, LAMBDA f : f.result = "loss"))
        wins == Len(SelectSeq(recentFeedback, LAMBDA f : f.result = "win"))
    IN  IF losses > wins THEN -((losses - wins) * 1)
        ELSE IF wins > losses THEN (wins - losses) * 1
        ELSE 0

winrateAdjustment(assetName) ==
    LET recentFeedback ==
            SliceLast(SelectSeq(feedbackHistory, LAMBDA f : f.asset = assetName), 20)
        losses == Len(SelectSeq(recentFeedback, LAMBDA f : f.result = "loss"))
        wins == Len(SelectSeq(recentFeedback, LAMBDA f : f.result = "win"))
    IN  IF losses > wins THEN -((losses - wins) * 2)
        ELSE IF wins > losses THEN (wins - losses) * 1
        ELSE 0

\* M1 with the entry three minutes after the minute of the call
EntryThreeMinutes(timeframe, t) ==
    IF timeframe = "M1" THEN addMinutes(startOfMinute(t), 3)
    ELSE LET mins == getMinutes(t)
             nextRound == CeilDiv(mins + 1, 5) * 5
         IN  setSeconds(startOfMinute(addMinutes(t, nextRound - mins)), 0)

\* M1 with the entry at the next minute
EntryNextMinute(timeframe, t) ==
    IF timeframe = "M1" THEN addMinutes(startOfMinute(t), 1)
    ELSE LET mins == getMinutes(t)
             nextRound == CeilDiv(mins + 1, 5) * 5
         IN  setSeconds(startOfMinute(addMinutes(t, nextRound - mins)), 0)

\* M5 rounding Math.ceil(mins / 5), which stays on a boundary it is on
EntryCeilOfMinute(timeframe, t) ==
    IF timeframe = "M1" THEN addMinutes(startOfMinute(t), 2)
    ELSE LET mins == getMinutes(t)
             nextRound == CeilDiv(mins, 5) * 5
         IN  setSeconds(startOfMinute(addMinutes(t, nextRound - mins)), 0)

\* Lines 190-203
EntryDate(timeframe, t) ==
    IF timeframe = "M1" THEN addMinutes(startOfMinute(t), 2)
    ELSE LET mins == getMinutes(t)
             nextRound == CeilDiv(mins + 1, 5) * 5
         IN  setSeconds(startOfMinute(addMinutes(t, nextRound - mins)), 0)

Expiration(timeframe) == IF timeframe = "M1" THEN "1 min" ELSE "5 min"

\* the clamp without its floor
ClampAbove(w) == Min(w, 100 * 100)

\* Math.max(0, Math.min(winrate, 100)), in hundredths
ClampWinrate(w) == Max(0, Min(w, 100 * 100))

\* the score starting from 70
RawWinrateFrom70(n, rnd, adjustment, penalty) ==
    70 * 100 + (n * 5) * 100 + rnd + 100 * adjustment + 100 * penalty

\* Line 205, before the clamp of line 219
RawWinrate(n, rnd, adjustment, penalty) ==
    75 * 100 + (n * 5) * 100 + rnd + 100 * adjustment + 100 * penalty

analyzeAsset(assetName, config, rnd) ==
    IF assetName \notin DOMAIN marketData THEN NULL
    ELSE
    LET candles == marketData[assetName].candles
        indicators == getIndicators(candles)
        lastCandle == candles[Len(candles)]
        c == Confluence(indicators, lastCandle)
        n == Len(c.confluences)
        winrate == RawWinrate(n, rnd, winrateAdjustment(assetName),
                              lossPenalty(assetName, c.direction, c.confluences))
        entryDate == EntryDate(config.timeframe, now)
    IN  IF c.direction = "NEUTRAL" THEN NULL
        ELSE Some([timestamp |-> now,
                   asset |-> assetName,
                   marketType |-> marketData[assetName].marketType,
                   direction |-> c.direction,
                   confluences |-> c.confluences,
                   strength |-> IF n >= 4 THEN "Strong"
                                ELSE IF n >= 3 THEN "Medium" ELSE "Weak",
                   confidence |-> IF n >= 5 THEN "Muito Alta"
                                  ELSE IF n = 4 THEN "Alta"
                                  ELSE IF n = 3 THEN "Media" ELSE "Baixa",
                   winrate |-> ClampWinrate(winrate),
                   price |-> lastCandle.close,
                   entryTimestamp |-> entryDate,
                   entryTime |-> FormatHMS(entryDate),
                   expiration |-> Expiration(config.timeframe),
                   context |-> [rsi |-> RsiSide(indicators.rsi),
                                macdHist |-> indicators.macd.histogram,
                                trend |-> indicators.trend,
                                confluences |-> c.confluences]])

(***************************************************************************)
(* The feedback file read at startup (lines 16-24): any list of records.   *)
(***************************************************************************)
Feedback(asset, direction, result, context) ==
    [asset |-> asset, direction |-> direction, result |-> result,
     timestamp |-> 0, context |-> context]

Context(confluences) ==
    Some([rsi |-> NULL, macdHist |-> NULL, trend |-> "neutral",
          confluences |-> confluences])

UpLabels == <<"RSI > 50", "Preco > SMA16", "Tendencia Alta">>
DownLabels == <<"MACD Positivo", "RSI < 50", "Preco < SMA16", "Tendencia Baixa">>

Repeat(x, n) == [i \in 1..n |-> x]

Histories ==
    { <<>>,
      Repeat(Feedback("EURUSD", "CALL", "win", Context(UpLabels)), HistLen),
      Repeat(Feedback("EURUSD", "CALL", "loss", Context(UpLabels)), HistLen),
      Repeat(Feedback("EURUSD", "PUT", "loss", Context(DownLabels)), HistLen),
      <<Feedback("EURUSD", "CALL", "win", NULL)>>
          \o Repeat(Feedback("EURUSD", "PUT", "loss", NULL), HistLen - 1),
      << Feedback("EURUSD", "CALL", "loss", Context(UpLabels)),
         Feedback("EURUSD", "CALL", "win", NULL),
         Feedback("EURUSD", "PUT", "loss", NULL),
         Feedback("BTCUSD", "CALL", "loss", Context(UpLabels)) >> }

Timeframes == {"M1", "M5"}
MarketTypes == {"REAL", "OTC", "GERAL"}
\* Math.random() * 5, in hundredths
Jitters == {0, 250, 496, 499}
\* one draw per asset of ASSETS, in its order
ScanJitters == {<<0, 0, 0>>, <<499, 499, 0>>, <<0, 0, 499>>}

TenOClock == 10 * 60 * MinuteMs
\* 10:07:30
StartTime == TenOClock + 7 * MinuteMs + 30000
CallTimes ==
    {TenOClock + m * MinuteMs + ms : m \in 0..MaxMinute, ms \in {0, 1, 30000, 59999}}

Market(candles) ==
    [a \in AssetNames |->
        [candles |-> candles,
         marketType |-> AssetType(a)]]

(***************************************************************************)
(* The SCAN_MARKET handler of one connection (lines 276-346).              *)
(***************************************************************************)
LogEntry(asset, status, reason) ==
    [time |-> FormatHMS(now), asset |-> asset, status |-> status, reason |-> reason]

ReasonMuted == <<"Ativo silenciado pelo usuario">>
ReasonMarketType == <<"Tipo de mercado filtrado">>
ReasonAlreadySent == <<"Sinal ja enviado para este horario">>
ReasonNoConfluence == <<"Sem confluencia minima">>
\* winrate.toFixed(1): the nearest tenth of a percent, in tenths
toFixed1(winrate) == (winrate + 5) \div 10

\* `Winrate insuficiente (${signal.winrate.toFixed(1)}%)`
ReasonWinrate(winrate) == <<"Winrate insuficiente", toFixed1(winrate)>>

\* mutedList.includes(asset.name)
IsMuted(mutedList, name) == name \in mutedList

\* the filter without its exception for GERAL
TypeDiffers(scannerConfig, asset) ==
    asset.type # scannerConfig.marketType

\* line 298
TypeFiltered(scannerConfig, asset) ==
    scannerConfig.marketType # "GERAL" /\ asset.type # scannerConfig.marketType

\* the filter with its threshold at 85
WinrateBelow85(signal) == signal.winrate < 85 * 100

\* line 306: signal.winrate < 90
WinrateTooLow(signal) == signal.winrate < 90 * 100

\* the filter comparing the time of the analysis, not the entry
SentAtTimestamp(last, signal) ==
    /\ last # NULL
    /\ signal.asset = Val(last).asset
    /\ signal.timestamp = Val(last).entryTimestamp

\* line 317
AlreadySent(last, signal) ==
    /\ last # NULL
    /\ signal.asset = Val(last).asset
    /\ signal.entryTimestamp = Val(last).entryTimestamp

\* the comparison letting an equal winrate replace the candidate
BetterOrEqual(signal, bestSignal) ==
    bestSignal = NULL \/ signal.winrate >= Val(bestSignal).winrate

\* line 328
Better(signal, bestSignal) ==
    bestSignal = NULL \/ signal.winrate > Val(bestSignal).winrate

\* Whether the loop reaches analyzeAsset for this asset
Analysed(scannerConfig, mutedList, asset) ==
    ~IsMuted(mutedList, asset.name) /\ ~TypeFiltered(scannerConfig, asset)

\* One pass of the forEach callback; `signal` is what analyzeAsset returns.
ScanAsset(asset, signal, acc, scannerConfig, mutedList, last) ==
    IF IsMuted(mutedList, asset.name)
    THEN [acc EXCEPT !.logs = Append(@, LogEntry(asset.name, "discarded", ReasonMuted))]
    ELSE IF TypeFiltered(scannerConfig, asset)
    THEN [acc EXCEPT !.logs =
              Append(@, LogEntry(asset.name, "discarded", ReasonMarketType))]
    ELSE IF signal = NULL
    THEN [acc EXCEPT !.logs =
              Append(@, LogEntry(asset.name, "discarded", ReasonNoConfluence))]
    ELSE IF WinrateTooLow(Val(signal))
    THEN [acc EXCEPT !.logs =
              Append(@, LogEntry(asset.name, "discarded",
                                 ReasonWinrate(Val(signal).winrate)))]
    ELSE IF AlreadySent(last, Val(signal))
    THEN [acc EXCEPT !.logs =
              Append(@, LogEntry(asset.name, "discarded", ReasonAlreadySent))]
    ELSE [logs |-> Append(acc.logs, LogEntry(asset.name, "analyzed", <<>>)),
          bestSignal |-> IF Better(Val(signal), acc.bestSignal)
                         THEN signal ELSE acc.bestSignal]

\* ASSETS.forEach from position i on
RECURSIVE ScanLoop(_, _, _, _, _, _)
ScanLoop(i, acc, signals, scannerConfig, mutedList, last) ==
    IF i > Len(ASSETS) THEN acc
    ELSE ScanLoop(i + 1,
                  ScanAsset(ASSETS[i], signals[i], acc, scannerConfig, mutedList, last),
                  signals, scannerConfig, mutedList, last)

\* the selection remembered but not logged
FinishUnlogged(acc, last) ==
    IF acc.bestSignal # NULL
    THEN [bestSignal |-> acc.bestSignal,
          logs |-> acc.logs,
          lastSignalInfo |->
              Some([asset |-> Val(acc.bestSignal).asset,
                    entryTimestamp |-> Val(acc.bestSignal).entryTimestamp])]
    ELSE [bestSignal |-> NULL, logs |-> acc.logs, lastSignalInfo |-> last]

\* a cycle without a selection forgetting the last one
FinishForgetting(acc, last) ==
    IF acc.bestSignal # NULL
    THEN [bestSignal |-> acc.bestSignal,
          logs |-> Append(acc.logs,
                          LogEntry(Val(acc.bestSignal).asset, "selected", <<>>)),
          lastSignalInfo |->
              Some([asset |-> Val(acc.bestSignal).asset,
                    entryTimestamp |-> Val(acc.bestSignal).entryTimestamp])]
    ELSE [bestSignal |-> NULL, logs |-> acc.logs, lastSignalInfo |-> NULL]

\* Lines 336-342: the selection is remembered and logged
FinishScan(acc, last) ==
    IF acc.bestSignal # NULL
    THEN [bestSignal |-> acc.bestSignal,
          logs |-> Append(acc.logs,
                          LogEntry(Val(acc.bestSignal).asset, "selected", <<>>)),
          lastSignalInfo |->
              Some([asset |-> Val(acc.bestSignal).asset,
                    entryTimestamp |-> Val(acc.bestSignal).entryTimestamp])]
    ELSE [bestSignal |-> NULL, logs |-> acc.logs, lastSignalInfo |-> last]

\* the (asset, entry) pair of a selection, as line 337 stores it
PairOf(signal) ==
    [asset |-> signal.asset, entryTimestamp |-> signal.entryTimestamp]

\* the pairs a connection has returned as bestSignal up to its last cycle
ReturnedPairs(scan) ==
    IF scan = NULL THEN {}
    ELSE Val(scan).returned \cup
         (IF Val(scan).bestSignal = NULL THEN {}
          ELSE {PairOf(Val(Val(scan).bestSignal))})

\* the pair of the most recent cycle of a connection that returned a
\* bestSignal, up to its last cycle
SelectedPair(scan) ==
    IF scan = NULL THEN NULL
    ELSE IF Val(scan).bestSignal # NULL
    THEN Some(PairOf(Val(Val(scan).bestSignal)))
    ELSE Val(scan).selected

\* one memory written by every connection
RememberAll(memory, s, pair) == [t \in DOMAIN memory |-> pair]

\* Line 274: lastSignalInfo is a variable of the connection's closure
Remember(memory, s, pair) == [memory EXCEPT ![s] = pair]

ScanMarket(s) ==
    /\ wsIn[s] # <<>>
    /\ Head(wsIn[s]).type = "SCAN_MARKET"
    /\ \E rnds \in ScanJitters :
        LET m == Head(wsIn[s])
            scannerConfig == m.config
            mutedList == m.mutedAssets
            signals ==
                [i \in 1..Len(ASSETS) |->
                    IF Analysed(scannerConfig, mutedList, ASSETS[i])
                    THEN analyzeAsset(ASSETS[i].name, scannerConfig, rnds[i])
                    ELSE NULL]
            r == FinishScan(ScanLoop(1, [logs |-> <<>>, bestSignal |-> NULL],
                                     signals, scannerConfig, mutedList,
                                     lastSignalInfo[s]),
                            lastSignalInfo[s])
        IN  /\ lastSignalInfo' = Remember(lastSignalInfo, s, r.lastSignalInfo)
            /\ wsOut' = [wsOut EXCEPT ![s] =
                            Append(@, [type |-> "SCAN_RESULT",
                                       data |-> [bestSignal |-> r.bestSignal,
                                                 logs |-> r.logs]])]
            /\ lastScan' = [lastScan EXCEPT ![s] =
                               Some([request |-> m,
                                     at |-> now,
                                     history |-> feedbackHistory,
                                     last |-> lastSignalInfo[s],
                                     returned |-> ReturnedPairs(lastScan[s]),
                                     selected |-> SelectedPair(lastScan[s]),
                                     prevBest |-> IF lastScan[s] = NULL THEN NULL
                                                  ELSE Val(lastScan[s]).bestSignal,
                                     signals |-> signals,
                                     bestSignal |-> r.bestSignal,
                                     logs |-> r.logs])]
    /\ wsIn' = [wsIn EXCEPT ![s] = Tail(@)]
    /\ UNCHANGED <<now, marketData, feedbackHistory, client, events,
                   lastPost, analysis, http>>

(***************************************************************************)
(* The market tick (lines 261-271): every asset's newest candle moves.     *)
(***************************************************************************)
TickCandle(candle, change) ==
    LET close == candle.close + change
    IN  [candle EXCEPT !.close = close,
                       !.high = Max(candle.high, close),
                       !.low = Min(candle.low, close)]

\* the body of the newest candle of an asset
Drift(a) ==
    LET c == marketData[a].candles
    IN  c[Len(c)].close - c[Len(c)].open

Tick ==
    /\ events < MaxEvents
    /\ events' = events + 1
    /\ \E draws \in TickChanges :
        LET change == [a \in AssetNames |-> draws[AssetIndex(a)]]
        IN  /\ \A a \in AssetNames : Drift(a) + change[a] \in TickRange
            /\ marketData' =
                  [a \in AssetNames |->
                      [marketData[a] EXCEPT
                          !.candles[WindowLen] = TickCandle(@, change[a])]]
    /\ UNCHANGED <<now, feedbackHistory, lastSignalInfo, client, wsIn, wsOut,
                   lastScan, lastPost, analysis, http>>

\* Time passes
Advance ==
    /\ events < MaxEvents
    /\ events' = events + 1
    /\ \E d \in {3 * MinuteMs, 5 * MinuteMs} :
        /\ now + d <= StartTime + MaxElapsed * MinuteMs
        /\ now' = now + d
    /\ UNCHANGED <<marketData, feedbackHistory, lastSignalInfo, client, wsIn, wsOut,
                   lastScan, lastPost, analysis, http>>

(***************************************************************************)
(* The client (App, lines 424-560), at the other end of connection App.    *)
(***************************************************************************)
App == "app"

MuteMs == 5 * 60 * 1000

InitialClient ==
    [config |-> [timeframe |-> "M1", marketType |-> "GERAL"],
     isScanning |-> FALSE,
     bestSignal |-> NULL,
     connected |-> FALSE,
     feedbackSent |-> NULL,
     mutedAssets |-> <<>>]

\* ws.onopen
OnOpen ==
    /\ ~client.connected
    /\ client' = [client EXCEPT !.connected = TRUE]
    /\ UNCHANGED <<now, marketData, feedbackHistory, lastSignalInfo, wsIn, wsOut,
                   lastScan, events, lastPost, analysis, http>>

\* the timeframe buttons and the market-type selector
SetConfig ==
    /\ events < MaxEvents
    /\ events' = events + 1
    /\ \E tf \in Timeframes, mt \in MarketTypes :
        /\ (tf = client.config.timeframe) # (mt = client.config.marketType)
        /\ client' = [client EXCEPT
                         !.config = [timeframe |-> tf, marketType |-> mt]]
    /\ UNCHANGED <<now, marketData, feedbackHistory, lastSignalInfo, wsIn, wsOut,
                   lastScan, lastPost, analysis, http>>

\* the clean-up keeping a mute at the instant it expires
MutesNotPast(mutedAssets, t) ==
    [a \in {x \in DOMAIN mutedAssets : mutedAssets[x] >= t} |-> mutedAssets[a]]

\* lines 546-549: the mutes whose expiry is still ahead
ActiveMutes(mutedAssets, t) ==
    [a \in {x \in DOMAIN mutedAssets : mutedAssets[x] > t} |-> mutedAssets[a]]

handleScan ==
    /\ client.connected /\ ~client.isScanning
    /\ events < MaxEvents
    /\ LET activeMutes == ActiveMutes(client.mutedAssets, now)
       IN  /\ client' = [client EXCEPT !.isScanning = TRUE,
                                       !.mutedAssets = activeMutes]
           /\ wsIn' = [wsIn EXCEPT ![App] =
                          Append(@, [type |-> "SCAN_MARKET",
                                     config |-> client.config,
                                     mutedAssets |-> DOMAIN activeMutes,
                                     \* history: Date.now() and the mutes kept
                                     \* by the client when the request is made
                                     sentAt |-> now,
                                     expiries |-> client.mutedAssets])]
    /\ events' = events + 1
    /\ UNCHANGED <<now, marketData, feedbackHistory, lastSignalInfo, wsOut,
                   lastScan, lastPost, analysis, http>>

\* the mute button of the signal card: muteAsset(bestSignal.asset)
muteAsset ==
    /\ events < MaxEvents
    /\ events' = events + 1
    /\ client.bestSignal # NULL
    /\ LET assetName == Val(client.bestSignal).asset
           expiry == now + MuteMs
           m == client.mutedAssets
       IN  client' = [client EXCEPT
                  !.mutedAssets =
                      [a \in DOMAIN m \cup {assetName} |->
                          IF a = assetName THEN expiry ELSE m[a]],
                  !.bestSignal = NULL]
    /\ UNCHANGED <<now, marketData, feedbackHistory, lastSignalInfo, wsIn, wsOut,
                   lastScan, lastPost, analysis, http>>

\* ws.onmessage
OnMessage ==
    /\ wsOut[App] # <<>>
    /\ LET msg == Head(wsOut[App])
       IN  client' = IF msg.type = "SCAN_RESULT"
                     THEN [client EXCEPT !.bestSignal = msg.data.bestSignal,
                                         !.isScanning = FALSE,
                                         !.feedbackSent = NULL]
                     ELSE client
    /\ wsOut' = [wsOut EXCEPT ![App] = Tail(@)]
    /\ UNCHANGED <<now, marketData, feedbackHistory, lastSignalInfo, wsIn,
                   lastScan, events, lastPost, analysis, http>>

(***************************************************************************)
(* POST /api/feedback (lines 235-245).  A field the body leaves out is     *)
(* the empty string.                                                       *)
(***************************************************************************)
\* !field is false: the field is present and not ''
Truthy(field) == field # ""

\* line 240: feedback.timestamp = Date.now()
Stamp(feedback, t) == [feedback EXCEPT !.timestamp = t]

\* the record put in front of the history
Unshift(history, record) == <<record>> \o history

\* line 241: feedbackHistory.push(feedback)
Push(history, record) == Append(history, record)

\* what saveFeedback (lines 26-32) leaves in memory, whether or not
\* writeFileSync throws: the error is caught and logged
saveFeedback(history, written) == history

\* the bodies submitted: what the App sends for a signal, and bodies that
\* leave a field out or carry another result
Bodies ==
    { Feedback("EURUSD", "CALL", "loss", Context(UpLabels)),
      Feedback("EURUSD", "CALL", "win", Context(UpLabels)),
      Feedback("BTCUSD", "PUT", "loss", NULL),
      Feedback("", "CALL", "win", NULL),
      Feedback("EURUSD", "CALL", "", NULL),
      Feedback("EURUSD", "CALL", "draw", NULL) }

Response(code, error, status, historySize) ==
    [code |-> code, error |-> error, status |-> status, historySize |-> historySize]

\* the handler of lines 235-245 on one body
Post(feedback, written) ==
    IF ~Truthy(feedback.asset) \/ ~Truthy(feedback.result)
    THEN /\ feedbackHistory' = feedbackHistory
         /\ lastPost' = Some([body |-> feedback,
                              at |-> now,
                              written |-> FALSE,
                              before |-> feedbackHistory,
                              after |-> feedbackHistory,
                              response |-> Response(400, "Invalid feedback",
                                                    "", NULL)])
    ELSE LET pushed == Push(feedbackHistory, Stamp(feedback, now))
             kept == saveFeedback(pushed, written)
         IN  /\ feedbackHistory' = kept
             /\ lastPost' = Some([body |-> feedback,
                                  at |-> now,
                                  written |-> written,
                                  before |-> feedbackHistory,
                                  after |-> kept,
                                  response |-> Response(200, "", "ok",
                                                        Some(Len(kept)))])

\* a POST from any HTTP client
PostFeedback ==
    /\ events < MaxEvents
    /\ events' = events + 1
    /\ \E feedback \in Bodies, written \in BOOLEAN : Post(feedback, written)
    /\ UNCHANGED <<now, marketData, lastSignalInfo, client, wsIn, wsOut, lastScan,
                   analysis, http>>

(***************************************************************************)
(* The feedback buttons of the App (lines 438-459) and its fetch.          *)
(***************************************************************************)
\* sendFeedback(result) up to the fetch: the request leaves with the body
\* built from the signal on display
sendFeedback ==
    /\ events < MaxEvents
    /\ events' = events + 1
    /\ client.bestSignal # NULL
    /\ client.feedbackSent # Some(Val(client.bestSignal).timestamp)
    /\ \E result \in {"win", "loss"} :
        LET bestSignal == Val(client.bestSignal)
            body == Feedback(bestSignal.asset, bestSignal.direction, result,
                             Some(bestSignal.context))
        IN  http' = [http EXCEPT
                        !.requests = Append(@, [signal |-> bestSignal,
                                                body |-> body]),
                        !.submitted = Append(@, bestSignal)]
    /\ UNCHANGED <<now, marketData, feedbackHistory, lastSignalInfo, client, wsIn,
                   wsOut, lastScan, lastPost, analysis>>

\* the server answers the oldest fetch on its way
ServeFeedback ==
    /\ http.requests # <<>>
    /\ \E written \in BOOLEAN : Post(Head(http.requests).body, written)
    /\ http' = [http EXCEPT
                    !.requests = Tail(@),
                    !.responses =
                        Append(@, [signal |-> Head(http.requests).signal,
                                   ok |-> Val(lastPost').response.code = 200])]
    /\ UNCHANGED <<now, marketData, lastSignalInfo, client, wsIn, wsOut, lastScan,
                   events, analysis>>

\* sendFeedback after the await: response.ok marks the signal the request
\* was sent for
OnResponse ==
    /\ http.responses # <<>>
    /\ client' = IF Head(http.responses).ok
                 THEN [client EXCEPT !.feedbackSent =
                                         Some(Head(http.responses).signal.timestamp)]
                 ELSE client
    /\ http' = [http EXCEPT !.responses = Tail(@)]
    /\ UNCHANGED <<now, marketData, feedbackHistory, lastSignalInfo, wsIn, wsOut,
                   lastScan, events, lastPost, analysis>>

\* ws.onclose (lines 513-519) and the end of the server's connection: what
\* was on its way is lost, and the next connection starts a new closure
OnClose ==
    /\ events < MaxEvents
    /\ events' = events + 1
    /\ client.connected
    /\ client' = [client EXCEPT !.connected = FALSE]
    /\ wsIn' = [wsIn EXCEPT ![App] = <<>>]
    /\ wsOut' = [wsOut EXCEPT ![App] = <<>>]
    /\ lastSignalInfo' = [lastSignalInfo EXCEPT ![App] = NULL]
    /\ lastScan' = [lastScan EXCEPT ![App] = NULL]
    /\ UNCHANGED <<now, marketData, feedbackHistory, lastPost, analysis, http>>

(***************************************************************************)
(* The system: the server with its connections, the market, the clock.     *)
(***************************************************************************)
vars == <<now, marketData, feedbackHistory, lastSignalInfo, client, wsIn, wsOut,
          lastScan, events, lastPost, analysis, http>>

\* The windows the run may start from, one shape per asset of ASSETS
InitialShapes ==
    {<<"up", "plateau", "flat">>, <<"up", "plateau", "up">>, <<"flat", "vee", "down">>}

InitialMarket(shapes) ==
    [a \in AssetNames |->
        [candles |-> InitialCandles(
                         shapes[AssetIndex(a)],
                         "none", 0),
         marketType |-> AssetType(a)]]

InitSessions ==
    /\ lastSignalInfo = [s \in Sessions |-> NULL]
    /\ client = InitialClient
    /\ wsIn = [s \in Sessions |-> <<>>]
    /\ wsOut = [s \in Sessions |-> <<>>]
    /\ lastScan = [s \in Sessions |-> NULL]
    /\ events = 0
    /\ lastPost = NULL
    /\ http = [requests |-> <<>>, responses |-> <<>>, submitted |-> <<>>]

Init ==
    /\ now = StartTime
    /\ \E shapes \in InitialShapes : marketData = InitialMarket(shapes)
    /\ feedbackHistory = <<>>
    /\ analysis = NULL
    /\ InitSessions

Next ==
    \/ OnOpen
    \/ SetConfig
    \/ handleScan
    \/ muteAsset
    \/ OnMessage
    \/ \E s \in Sessions : ScanMarket(s)
    \/ Tick
    \/ Advance

Spec == Init /\ [][Next]_vars

(***************************************************************************)
(* The feedback endpoint beside the scans and the market tick.             *)
(***************************************************************************)
InitFeedback ==
    /\ now = StartTime
    /\ marketData = InitialMarket(<<"up", "plateau", "flat">>)
    /\ feedbackHistory \in {<<>>, <<Feedback("EURUSD", "PUT", "loss", NULL)>>}
    /\ analysis = NULL
    /\ InitSessions

NextFeedback ==
    \/ PostFeedback
    \/ OnOpen
    \/ handleScan
    \/ OnMessage
    \/ \E s \in Sessions : ScanMarket(s)
    \/ Tick

SpecFeedback == InitFeedback /\ [][NextFeedback]_vars

(***************************************************************************)
(* The App with its feedback buttons and a connection that may close.      *)
(***************************************************************************)
InitApp ==
    /\ now = StartTime
    /\ \E shapes \in InitialShapes : marketData = InitialMarket(shapes)
    /\ feedbackHistory = <<>>
    /\ analysis = NULL
    /\ InitSessions

NextApp ==
    \/ OnOpen
    \/ OnClose
    \/ handleScan
    \/ ScanMarket(App)
    \/ OnMessage
    \/ sendFeedback
    \/ ServeFeedback
    \/ OnResponse

SpecApp == InitApp /\ [][NextApp]_vars

(***************************************************************************)
(* The App scanning over a connection that may close.  The server answers  *)
(* every request it receives, the browser delivers every message and the   *)
(* reconnect timer of line 516 fires: weak fairness on these three steps.  *)
(***************************************************************************)
InitReconnect ==
    /\ now = StartTime
    /\ \E shapes \in InitialShapes : marketData = InitialMarket(shapes)
    /\ feedbackHistory = <<>>
    /\ analysis = NULL
    /\ InitSessions

NextReconnect ==
    \/ OnOpen
    \/ OnClose
    \/ handleScan
    \/ ScanMarket(App)
    \/ OnMessage

\* WF_vars(ScanMarket(App)) written out: the step is enabled exactly when
\* a request is waiting on the connection
ServerAnswers ==
    []<>(wsIn[App] = <<>>) \/ []<><<ScanMarket(App)>>_vars

SpecReconnect ==
    /\ InitReconnect
    /\ [][NextReconnect]_vars
    /\ WF_vars(OnOpen)
    /\ WF_vars(OnMessage)
    /\ ServerAnswers

(***************************************************************************)
(* Two connections of the same server, each sending SCAN_MARKET requests   *)
(* (lines 541-560) and reading the answers, in any interleaving.           *)
(***************************************************************************)
InitConnections ==
    /\ now = StartTime
    /\ marketData = InitialMarket(<<"up", "plateau", "up">>)
    /\ feedbackHistory = <<>>
    /\ analysis = NULL
    /\ InitSessions

\* socket.send of a SCAN_MARKET request on connection s, once the answer
\* to the one before was read (isScanning, lines 542 and 512)
Send(s) ==
    /\ events < MaxEvents
    /\ events' = events + 1
    /\ wsIn[s] = <<>> /\ wsOut[s] = <<>>
    /\ \E timeframe \in Timeframes :
           wsIn' = [wsIn EXCEPT ![s] =
                       Append(@, [type |-> "SCAN_MARKET",
                                  config |-> [marketType |-> "GERAL",
                                              timeframe |-> timeframe],
                                  mutedAssets |-> {},
                                  sentAt |-> now,
                                  expiries |-> <<>>])]
    /\ UNCHANGED <<now, marketData, feedbackHistory, lastSignalInfo, client,
                   wsOut, lastScan, lastPost, analysis, http>>

\* the SCAN_RESULT taken off connection s by its client
Receive(s) ==
    /\ wsOut[s] # <<>>
    /\ wsOut' = [wsOut EXCEPT ![s] = Tail(@)]
    /\ UNCHANGED <<now, marketData, feedbackHistory, lastSignalInfo, client, wsIn,
                   lastScan, events, lastPost, analysis, http>>

NextConnections ==
    \/ \E s \in Sessions : Send(s)
    \/ \E s \in Sessions : ScanMarket(s)
    \/ \E s \in Sessions : Receive(s)

SpecConnections == InitConnections /\ [][NextConnections]_vars

(***************************************************************************)
(* analyzeAsset as a function of its inputs: the candle window, the        *)
(* feedback history, the clock, the timeframe and the random draw.         *)
(***************************************************************************)
InitAnalyze ==
    /\ analysis = NULL
    /\ InitSessions
    /\ \/ /\ now = StartTime
          /\ \E w \in Windows : marketData = Market(w)
          /\ feedbackHistory \in Histories
       \/ /\ now \in CallTimes
          /\ marketData = Market(InitialCandles("up", "none", 0))
          /\ feedbackHistory = <<>>

\* The record of one call: its inputs, the conditions that matched, the two
\* corrections it worked out from the feedback history, and what it returned.
Call(a, config, rnd) ==
    LET candles == marketData[a].candles
        ind == getIndicators(candles)
        c == Confluence(ind, candles[Len(candles)])
    IN  [asset |-> a, config |-> config, rnd |-> rnd,
         at |-> now,
         history |-> feedbackHistory,
         buys |-> BuyLabels(ind, candles[Len(candles)]),
         sells |-> SellLabels(ind, candles[Len(candles)]),
         direction |-> c.direction,
         confluences |-> c.confluences,
         lossPenalty |-> lossPenalty(a, c.direction, c.confluences),
         winrateAdjustment |-> winrateAdjustment(a),
         signal |-> analyzeAsset(a, config, rnd),
         earlier |-> NULL]

AnalyzeStep ==
    /\ analysis = NULL
    /\ \E a \in AssetNames, tf \in Timeframes, rnd \in Jitters :
           LET config == [timeframe |-> tf, marketType |-> "GERAL"]
           IN  analysis' = Some(Call(a, config, rnd))
    /\ UNCHANGED <<now, marketData, feedbackHistory, lastSignalInfo, client, wsIn,
                   wsOut, lastScan, events, lastPost, http>>

NextAnalyze == AnalyzeStep
SpecAnalyze == InitAnalyze /\ [][NextAnalyze]_vars

(***************************************************************************)
(* analyzeAsset called again with the same inputs after feedback came in.  *)
(***************************************************************************)
InitLoss ==
    /\ now = StartTime
    /\ \E sh \in {"up", "plateau"} :
           marketData = Market(InitialCandles(sh, "none", 0))
    /\ feedbackHistory \in
           { <<>>,
             Repeat(Feedback("EURUSD", "CALL", "win", Context(UpLabels)), HistLen),
             Repeat(Feedback("EURUSD", "CALL", "loss", Context(UpLabels)), HistLen) }
    /\ analysis = NULL
    /\ InitSessions

\* the same call as the one recorded, once the history has changed
Reanalyze ==
    /\ \E rnd \in {0, 499} :
           LET config == [timeframe |-> "M1", marketType |-> "GERAL"]
           IN  /\ analysis # NULL =>
                      /\ Val(analysis).rnd = rnd
                      /\ Val(analysis).history # feedbackHistory
               /\ analysis' =
                      Some([Call("EURUSD", config, rnd) EXCEPT
                               !.earlier = IF analysis = NULL THEN NULL
                                           ELSE Some([Val(analysis) EXCEPT
                                                         !.earlier = NULL])])
    /\ UNCHANGED <<now, marketData, feedbackHistory, lastSignalInfo, client, wsIn,
                   wsOut, lastScan, events, lastPost, http>>

\* the App reporting the outcome of a EURUSD signal
PostOutcome ==
    /\ PostFeedback
    /\ Val(lastPost').written
    /\ Val(lastPost').body.asset = "EURUSD"
    /\ Val(lastPost').body.result \in {"win", "loss"}

NextLoss == Reanalyze \/ PostOutcome
SpecLoss == InitLoss /\ [][NextLoss]_vars

(***************************************************************************)
(* Scans of a server that holds feedback for EURUSD, with EURUSD matching  *)
(* all five buy conditions, while more outcomes are reported.              *)
(***************************************************************************)
Loss(asset) == Feedback(asset, "CALL", "loss", NULL)
Win(asset) == Feedback(asset, "CALL", "win", NULL)

\* feedback files with 8 losses more than wins among the 20 most recent
\* records of EURUSD, with fewer, and with older losses beyond the 20
LosingHistories ==
    { Repeat(Loss("EURUSD"), 8),
      Repeat(Win("EURUSD"), 6) \o Repeat(Loss("EURUSD"), 14),
      Repeat(Loss("EURUSD"), 9) \o Repeat(Win("EURUSD"), 10)
          \o Repeat(Loss("EURUSD"), 10),
      Repeat(Loss("BTCUSD"), 8) \o Repeat(Loss("EURUSD"), 5) }

InitLosing ==
    /\ now = StartTime
    /\ marketData =
           [a \in AssetNames |->
               [candles |-> IF a = "EURUSD"
                            THEN InitialCandles("vee", "bottom", 0)
                            ELSE IF a = "EURUSD-OTC"
                            THEN InitialCandles("flat", "none", 0)
                            ELSE InitialCandles("up", "none", 0),
                marketType |-> AssetType(a)]]
    /\ feedbackHistory \in LosingHistories
    /\ analysis = NULL
    /\ InitSessions

NextLosing ==
    \/ Send(App)
    \/ ScanMarket(App)
    \/ Receive(App)
    \/ PostOutcome

SpecLosing == InitLosing /\ [][NextLosing]_vars

(***************************************************************************)
(* analyzeAsset and detectTrend as functions of the closes: short windows  *)
(* of closes of either sign, a first close, a second one, a level held     *)
(* until the last close.                                                   *)
(***************************************************************************)
CandlesOf(closes) ==
    [i \in 1..Len(closes) |->
        LET open == IF i = 1 THEN closes[1] ELSE closes[i - 1]
        IN  [open |-> open,
             high |-> Max(open, closes[i]) + 1,
             low |-> Min(open, closes[i]) - 1,
             close |-> closes[i]]]

TrendCloses ==
    {<<a, b>> \o Repeat(c, n - 3) \o <<d>> :
        a \in {-1, 0, 1, BasePrice},
        b \in {-16, -15, -14, 0, 1, BasePrice},
        c \in {-1, 0, 1, BasePrice},
        d \in {-1, 0, 1, 2, BasePrice + 1},
        n \in 15..MaxTrendLen}

InitTrend ==
    /\ now = StartTime
    /\ \E closes \in TrendCloses : marketData = Market(CandlesOf(closes))
    /\ feedbackHistory = <<>>
    /\ analysis = NULL
    /\ InitSessions

NextTrend == AnalyzeStep
SpecTrend == InitTrend /\ [][NextTrend]_vars

(***************************************************************************)
(* detectFractal as a function of the candles: windows of 3 candles and    *)
(* more, each candle with a short or a long wick on either side.           *)
(***************************************************************************)
FractalCandle(up, dn) ==
    [open |-> BasePrice, high |-> BasePrice + up,
     low |-> BasePrice - dn, close |-> BasePrice]

FractalCandles == {FractalCandle(up, dn) : up \in {1, 2}, dn \in {1, 2}}

FractalWindows ==
    UNION {[1..n -> FractalCandles] : n \in 3..MaxFractalLen}

InitFractal ==
    /\ now = StartTime
    /\ marketData = InitialMarket(<<"up", "plateau", "flat">>)
    /\ feedbackHistory = <<>>
    /\ InitSessions
    /\ \E c \in FractalWindows :
           analysis = Some([candles |-> c, called |-> FALSE, fractal |-> NULL])

FractalStep ==
    /\ analysis # NULL
    /\ ~Val(analysis).called
    /\ analysis' = Some([Val(analysis) EXCEPT
                             !.called = TRUE,
                             !.fractal = detectFractal(Val(analysis).candles)])
    /\ UNCHANGED <<now, marketData, feedbackHistory, lastSignalInfo, client, wsIn,
                   wsOut, lastScan, events, lastPost, http>>

NextFractal == FractalStep
SpecFractal == InitFractal /\ [][NextFractal]_vars

(***************************************************************************)
(* Properties of analyzeAsset, stated on the recorded call.                *)
(***************************************************************************)
Returned == analysis # NULL /\ Val(analysis).signal # NULL
ReturnedFor(timeframe) ==
    Returned /\ Val(analysis).config.timeframe = timeframe

\* C1: analyzeAsset returns null whenever at most one of the five buy
\* conditions and at most one of the five sell conditions match, and every
\* Signal it returns is a CALL with at least two buy conditions matching or
\* a PUT with at least two sell conditions matching.
C1_ConfluenceGate ==
    analysis # NULL =>
        LET r == Val(analysis)
            nb == Len(r.buys)
            ns == Len(r.sells)
        IN  /\ (nb <= 1 /\ ns <= 1) => r.signal = NULL
            /\ r.signal # NULL =>
                   \/ Val(r.signal).direction = "CALL" /\ nb >= 2
                   \/ Val(r.signal).direction = "PUT" /\ ns >= 2

\* the labels of the conditions of a direction that match in the call
LabelsOf(call, direction) ==
    IF direction = "CALL" THEN call.buys ELSE call.sells

\* the tiers of lines 206-218 for a count of conditions
StrengthOf(n) == IF n >= 4 THEN "Strong" ELSE IF n >= 3 THEN "Medium" ELSE "Weak"
ConfidenceOf(n) ==
    IF n >= 5 THEN "Muito Alta" ELSE IF n = 4 THEN "Alta"
    ELSE IF n = 3 THEN "Media" ELSE "Baixa"

\* C22: every confluence label of a returned Signal belongs to its
\* direction (a CALL carries the buy labels that match, a PUT the sell
\* labels that match, and no other), and the strength and confidence tiers
\* are those of the number of matching conditions of that direction.
C22_LabelsOfDirection ==
    Returned =>
        LET call == Val(analysis)
            signal == Val(call.signal)
            own == LabelsOf(call, signal.direction)
        IN  /\ signal.confluences = own
            /\ signal.strength = StrengthOf(Len(own))
            /\ signal.confidence = ConfidenceOf(Len(own))

\* the closes of the window the recorded call read, and their sma16
ClosesRead == Closes(marketData[Val(analysis).asset].candles)
LastCloseRead == ClosesRead[Len(ClosesRead)]
Sma16Read == calculateSMA(ClosesRead, 16)
AboveSma16 == LastCloseRead * 16 > Val(Sma16Read).sum
BelowSma16 == LastCloseRead * 16 < Val(Sma16Read).sum

\* C26: for every window with sma16 present, the last close is above sma16
\* iff the trend is up (the two buy labels come together) and below sma16
\* iff the trend is down (the two sell labels come together); and when the
\* last close differs from sma16, analyzeAsset returns a Signal.
C26_SmaAndTrendTogether ==
    (analysis # NULL /\ Sma16Read # NULL) =>
        LET call == Val(analysis)
            trend == detectTrend(ClosesRead, Sma16Read)
        IN  /\ AboveSma16 <=> trend = "up"
            /\ BelowSma16 <=> trend = "down"
            /\ Includes(call.buys, "Preco > SMA16")
                   <=> Includes(call.buys, "Tendencia Alta")
            /\ Includes(call.sells, "Preco < SMA16")
                   <=> Includes(call.sells, "Tendencia Baixa")
            /\ (AboveSma16 \/ BelowSma16) => call.signal # NULL

\* C7: every Signal analyzeAsset returns has 0 <= winrate <= 100, whatever
\* the feedback history, the number of confluences and the random draw.
C7_WinrateInRange ==
    Returned =>
        /\ Val(Val(analysis).signal).winrate >= 0
        /\ Val(Val(analysis).signal).winrate <= 100 * 100

\* a history of losses takes the raw score below zero and the Signal is
\* returned with winrate 0
C7_Witness ==
    /\ Returned
    /\ Val(Val(analysis).signal).winrate = 0
    /\ Len(feedbackHistory) >= 20

\* C9: for timeframe M1 the entry timestamp is the call time rounded down to
\* the whole minute plus 2 minutes, so it lies more than 1 minute and at most
\* 2 minutes after the call, and the expiration label is '1 min'.
C9_EntryM1 ==
    ReturnedFor("M1") =>
        LET r == Val(analysis)
            signal == Val(r.signal)
        IN  /\ signal.entryTimestamp = (r.at - (r.at % 60000)) + 2 * 60000
            /\ signal.entryTimestamp - r.at > 60000
            /\ signal.entryTimestamp - r.at <= 2 * 60000
            /\ signal.expiration = "1 min"

\* an M1 call in the last millisecond of a minute
C9_Witness ==
    /\ ReturnedFor("M1")
    /\ Val(analysis).at % 60000 = 59999
    /\ Val(Val(analysis).signal).entryTimestamp - Val(analysis).at = 60001

\* C10: for timeframe M5 the entry timestamp is the next instant on a
\* 5-minute boundary of the hour with seconds zeroed: strictly later than
\* the call and at most 5 minutes later, also for calls exactly on a boundary
\* and in minutes 55-59; a call at 10:07:30 gives 10:10:00; the expiration
\* label is '5 min'.
C10_EntryM5 ==
    ReturnedFor("M5") =>
        LET r == Val(analysis)
            signal == Val(r.signal)
            entry == signal.entryTimestamp
        IN  /\ entry % (5 * 60000) = 0
            /\ entry > r.at
            /\ entry - r.at <= 5 * 60000
            /\ r.at = (10 * 60 + 7) * 60000 + 30000
                   => /\ entry = (10 * 60 + 10) * 60000
                      /\ signal.entryTime = <<10, 10, 0>>
            /\ signal.expiration = "5 min"

\* an M5 call exactly on the boundary 10:55:00, which enters at 11:00:00
C10_Witness ==
    /\ ReturnedFor("M5")
    /\ Val(analysis).at = (10 * 60 + 55) * 60000
    /\ Val(Val(analysis).signal).entryTime = <<11, 0, 0>>

\* an M1 call at 10:07:30 that returned a Signal
M1AtStartTime ==
    ReturnedFor("M1") /\ Val(analysis).at = (10 * 60 + 7) * 60000 + 30000

\* C11, as the code has it: for timeframe M1 and a call at 10:07:30 the
\* entry timestamp is 10:09:00, the minute of the call plus 2 minutes.
C11_EntryM1At100730 ==
    M1AtStartTime =>
        /\ Val(Val(analysis).signal).entryTimestamp = (10 * 60 + 9) * 60000
        /\ Val(Val(analysis).signal).entryTime = <<10, 9, 0>>

\* C11, as stated: for timeframe M1 and a call at 10:07:30 the entry
\* timestamp is 10:10:00.
C11_AsStated ==
    M1AtStartTime =>
        Val(Val(analysis).signal).entryTimestamp = (10 * 60 + 10) * 60000

\* the M1 call at 10:07:30, answered with the entry 10:09:00
C11_Witness ==
    /\ M1AtStartTime
    /\ Val(Val(analysis).signal).entryTime = <<10, 9, 0>>
    /\ Val(Val(analysis).signal).expiration = "1 min"

\* the records the history gained between the earlier call and this one
Added(call) ==
    SubSeq(call.history, Len(Val(call.earlier).history) + 1, Len(call.history))

\* a loss of this asset and direction whose recorded confluences overlap
\* the signal's by 70% or more
MatchingLoss(f, signal) ==
    /\ f.asset = signal.asset
    /\ f.result = "loss"
    /\ f.direction = signal.direction
    /\ f.context # NULL
    /\ 10 * Cardinality({Val(f.context).confluences[i] :
                             i \in DOMAIN Val(f.context).confluences}
                         \cap {signal.confluences[i] :
                                  i \in DOMAIN signal.confluences})
          >= 7 * Max(Len(Val(f.context).confluences), Len(signal.confluences))

\* the same call made before and after one or more matching losses, and
\* nothing else, were added to the history
LossesAdded ==
    /\ analysis # NULL
    /\ Val(analysis).earlier # NULL
    /\ Val(Val(analysis).earlier).signal # NULL
    /\ Val(analysis).signal # NULL
    /\ IsPrefix(Val(Val(analysis).earlier).history, Val(analysis).history)
    /\ Added(Val(analysis)) # <<>>
    /\ \A i \in DOMAIN Added(Val(analysis)) :
           MatchingLoss(Added(Val(analysis))[i],
                        Val(Val(Val(analysis).earlier).signal))

WinrateBefore == Val(Val(Val(analysis).earlier).signal).winrate
WinrateAfter == Val(Val(analysis).signal).winrate

\* C14, as the code has it: with the window, the jitter and the other
\* records fixed, adding matching losses never raises the winrate, and
\* lowers it unless the clamp holds it at 0 or at 100 before and after.
C14_LossesLowerWinrate ==
    LossesAdded =>
        /\ WinrateAfter <= WinrateBefore
        /\ WinrateAfter = WinrateBefore => WinrateAfter \in {0, 100 * 100}

\* C14, as stated: adding one or more matching losses strictly decreases
\* the winrate.
C14_AsStated ==
    LossesAdded => WinrateAfter < WinrateBefore

\* one matching loss added to an empty history takes the winrate from 90
\* to 83
C14_Witness ==
    /\ LossesAdded
    /\ Val(Val(analysis).earlier).history = <<>>
    /\ Len(Val(analysis).history) = 1
    /\ WinrateBefore = 90 * 100
    /\ WinrateAfter = 83 * 100

\* the places of the history held by matching losses of the returned signal
MatchingPlaces(call) ==
    {i \in DOMAIN call.history : MatchingLoss(call.history[i], Val(call.signal))}

\* C15: the loss penalty is -5 times the number of feedback records with
\* the analyzed asset, result 'loss', the signal's direction, a recorded
\* context and an overlap |recorded confluences /\ current confluences| /
\* max(|recorded|, |current|) of at least 0.7; other records add nothing.
C15_LossPenalty ==
    Returned =>
        Val(analysis).lossPenalty = 0 - 5 * Cardinality(MatchingPlaces(Val(analysis)))

\* a history of four records: one matching loss, a win, a loss without
\* context and a loss of another asset; the penalty is -5
C15_Witness ==
    /\ Returned
    /\ Len(Val(analysis).history) = 4
    /\ Val(analysis).asset = "EURUSD"
    /\ Cardinality(MatchingPlaces(Val(analysis))) = 1
    /\ Val(analysis).lossPenalty = -5

\* the places of the history held by the 20 most recent records of the asset
RecentPlaces(call) ==
    LET own == {i \in DOMAIN call.history : call.history[i].asset = call.asset}
    IN  {i \in own : Cardinality({j \in own : j > i}) < 20}

RecentWith(call, result) ==
    Cardinality({i \in RecentPlaces(call) : call.history[i].result = result})

\* C16: the feedback adjustment is worked out from the 20 most recent
\* feedback records of the analyzed asset, of any direction: it is
\* -2 * (losses - wins) when losses > wins, wins - losses when wins > losses
\* and 0 on a tie; records of other assets and older records of this asset
\* do not count.
C16_Adjustment ==
    Returned =>
        LET losses == RecentWith(Val(analysis), "loss")
            wins == RecentWith(Val(analysis), "win")
        IN  Val(analysis).winrateAdjustment =
                IF losses > wins THEN 0 - 2 * (losses - wins)
                ELSE IF wins > losses THEN wins - losses
                ELSE 0

\* a win followed by 20 losses of the asset: the win is too old to count
\* and the adjustment is -40
C16_Witness ==
    /\ Returned
    /\ Val(analysis).asset = "EURUSD"
    /\ Len(Val(analysis).history) > 20
    /\ Val(analysis).history[1].result = "win"
    /\ RecentWith(Val(analysis), "loss") = 20
    /\ RecentWith(Val(analysis), "win") = 0
    /\ Val(analysis).winrateAdjustment = -40

\* the candle three from the end and its two neighbours on each side
Middle(candles) == candles[Len(candles) - 2]
Neighbours(candles) ==
    {candles[Len(candles) - 2 + k] : k \in {-2, -1, 1, 2}}

HighestHigh(candles) ==
    \A c \in Neighbours(candles) : Middle(candles).high > c.high
LowestLow(candles) ==
    \A c \in Neighbours(candles) : Middle(candles).low < c.low

FractalCalled == Val(analysis).called

\* C17, as the code has it: on 5 candles or more detectFractal returns
\* 'top' iff the high of the candle three from the end is strictly above
\* its four neighbours' highs, 'bottom' iff its low is strictly below their
\* lows and the top condition fails, and null otherwise; fewer than 5
\* candles give null.
C17_Fractal ==
    FractalCalled =>
        LET candles == Val(analysis).candles
            result == Val(analysis).fractal
        IN  IF Len(candles) < 5 THEN result = NULL
            ELSE /\ result = <<"top">> <=> HighestHigh(candles)
                 /\ result = <<"bottom">> <=>
                        (LowestLow(candles) /\ ~HighestHigh(candles))
                 /\ result = NULL <=>
                        (~HighestHigh(candles) /\ ~LowestLow(candles))

\* C17, as stated: 'top' iff the high is strictly above all four, 'bottom'
\* iff the low is strictly below all four, null otherwise; no candle meets
\* both conditions; fewer than 5 candles give null.
C17_AsStated ==
    FractalCalled =>
        LET candles == Val(analysis).candles
            result == Val(analysis).fractal
        IN  IF Len(candles) < 5 THEN result = NULL
            ELSE /\ result = <<"top">> <=> HighestHigh(candles)
                 /\ result = <<"bottom">> <=> LowestLow(candles)
                 /\ result = NULL <=>
                        (~HighestHigh(candles) /\ ~LowestLow(candles))
                 /\ ~(HighestHigh(candles) /\ LowestLow(candles))

\* a candle with the highest high and the lowest low of its five, which
\* detectFractal calls a top
C17_Witness ==
    /\ FractalCalled
    /\ Len(Val(analysis).candles) >= 5
    /\ HighestHigh(Val(analysis).candles)
    /\ LowestLow(Val(analysis).candles)
    /\ Val(analysis).fractal = <<"top">>

(***************************************************************************)
(* Properties of the scan cycle, stated on the last request each           *)
(* connection handled and on what was answered.                            *)
(***************************************************************************)
Instruments == 1..Len(ASSETS)

\* the entries a log holds for one asset, the 'selected' one apart
EntriesOf(logs, name) ==
    SelectSeq(logs, LAMBDA e : e.asset = name /\ e.status # "selected")

Logged(logs, name, status) ==
    \E j \in DOMAIN logs : logs[j].asset = name /\ logs[j].status = status

Discarded(logs, name, reason) ==
    \E j \in DOMAIN logs :
        /\ logs[j].asset = name
        /\ logs[j].status = "discarded"
        /\ logs[j].reason = reason

NotBest(scan, name) ==
    scan.bestSignal = NULL \/ Val(scan.bestSignal).asset # name

\* the signal of instrument i has a winrate of 90 or more
Qualifies(scan, i) ==
    scan.signals[i] # NULL /\ Val(scan.signals[i]).winrate >= 90 * 100

\* instrument i again produces a qualifying signal for the entry selected
\* in the cycle before
Again(scan, i) ==
    /\ scan.prevBest # NULL
    /\ ASSETS[i].name = Val(scan.prevBest).asset
    /\ Qualifies(scan, i)
    /\ Val(scan.signals[i]).entryTimestamp = Val(scan.prevBest).entryTimestamp

\* C2: on one connection, when cycle k selects asset A with entry T and in
\* cycle k+1 A again produces a signal with winrate >= 90 and entry T, then
\* in cycle k+1 A is logged 'discarded' as already sent and is not the
\* bestSignal; if no other instrument qualifies, bestSignal is absent.
C2_RepeatSuppressed ==
    \A s \in Sessions : lastScan[s] # NULL =>
        LET scan == Val(lastScan[s])
        IN  \A i \in Instruments : Again(scan, i) =>
                /\ Discarded(scan.logs, ASSETS[i].name, ReasonAlreadySent)
                /\ ~Logged(scan.logs, ASSETS[i].name, "analyzed")
                /\ NotBest(scan, ASSETS[i].name)
                /\ (\A j \in Instruments \ {i} : ~Qualifies(scan, j))
                       => scan.bestSignal = NULL

\* the asset selected a cycle ago qualifies again for the same entry, no
\* other instrument does, and the answer holds no bestSignal
C2_Witness ==
    \E s \in Sessions :
        /\ lastScan[s] # NULL
        /\ \E i \in Instruments :
               /\ Again(Val(lastScan[s]), i)
               /\ \A j \in Instruments \ {i} : ~Qualifies(Val(lastScan[s]), j)
        /\ Val(lastScan[s]).bestSignal = NULL

\* C18: within one session the same (asset, entry) pair is never returned
\* as bestSignal twice, also when another asset was selected in between.
C18_NeverTwice ==
    \A s \in Sessions :
        (lastScan[s] # NULL /\ Val(lastScan[s]).bestSignal # NULL) =>
            PairOf(Val(Val(lastScan[s]).bestSignal))
                \notin Val(lastScan[s]).returned

\* instrument i reaches the repeat filter of the cycle (not muted, not
\* filtered by market type, winrate of 90 or more) with the entry of the
\* pair the session selected last
SameAsSelected(scan, i) ==
    /\ scan.selected # NULL
    /\ ASSETS[i].name = Val(scan.selected).asset
    /\ Qualifies(scan, i)
    /\ Val(scan.signals[i]).entryTimestamp = Val(scan.selected).entryTimestamp

\* C19: a cycle that returns no bestSignal leaves the session's memory as
\* it was, a cycle that returns one sets it to that signal's pair; so the
\* memory a cycle starts from is the pair of the session's most recent
\* selection, however many cycles without a selection lie in between, and
\* an asset whose signal reaches the repeat filter with that pair is
\* discarded as already sent and is not the bestSignal.
C19_MemoryFrame ==
    \A s \in Sessions : lastScan[s] # NULL =>
        LET scan == Val(lastScan[s])
        IN  /\ scan.bestSignal = NULL => lastSignalInfo[s] = scan.last
            /\ scan.bestSignal # NULL =>
                   lastSignalInfo[s] = Some(PairOf(Val(scan.bestSignal)))
            /\ scan.last = scan.selected
            /\ \A i \in Instruments : SameAsSelected(scan, i) =>
                   /\ Discarded(scan.logs, ASSETS[i].name, ReasonAlreadySent)
                   /\ NotBest(scan, ASSETS[i].name)

\* a pair selected two cycles ago or earlier is still remembered after a
\* cycle without a selection: the cycle before returned no bestSignal, and
\* this one discards the asset as already sent and returns none either
C19_Witness ==
    \E s \in Sessions :
        /\ lastScan[s] # NULL
        /\ Val(lastScan[s]).prevBest = NULL
        /\ Val(lastScan[s]).bestSignal = NULL
        /\ \E i \in Instruments : SameAsSelected(Val(lastScan[s]), i)
        /\ lastSignalInfo[s] = Val(lastScan[s]).selected

\* C20: the memory is per connection. In any interleaving of the scan
\* requests of two sessions, an asset is discarded as already sent in a
\* cycle of a session iff its signal reaches the repeat filter with the
\* pair of that session's own most recent selection, and each session's
\* memory is the pair of its own most recent selection, whatever the other
\* session selected.
C20_PerConnection ==
    \A s \in Sessions :
        /\ lastSignalInfo[s] = SelectedPair(lastScan[s])
        /\ lastScan[s] # NULL =>
               \A i \in Instruments :
                   Discarded(Val(lastScan[s]).logs, ASSETS[i].name,
                             ReasonAlreadySent)
                       <=> SameAsSelected(Val(lastScan[s]), i)

\* one session discards an asset as already sent for the pair it selected
\* itself, while the last cycle of the other session returned that very
\* pair as its bestSignal
C20_Witness ==
    \E s \in Sessions : \E t \in Sessions \ {s} :
        /\ lastScan[s] # NULL
        /\ lastScan[t] # NULL
        /\ \E i \in Instruments :
               /\ SameAsSelected(Val(lastScan[s]), i)
               /\ Discarded(Val(lastScan[s]).logs, ASSETS[i].name,
                            ReasonAlreadySent)
        /\ Val(lastScan[t]).bestSignal # NULL
        /\ Some(PairOf(Val(Val(lastScan[t]).bestSignal)))
               = Val(lastScan[s]).selected

WinrateOf(scan, i) == Val(scan.signals[i]).winrate

\* the feedback records of an asset
RecordsOf(history, name) == SelectSeq(history, LAMBDA f : f.asset = name)

\* instrument i is discarded for its winrate in the cycle
DiscardedForWinrate(scan, i) ==
    \E j \in DOMAIN scan.logs :
        /\ scan.logs[j].asset = ASSETS[i].name
        /\ scan.logs[j].status = "discarded"
        /\ scan.logs[j].reason # <<>>
        /\ scan.logs[j].reason[1] = "Winrate insuficiente"

LabelCount(scan, i) == Len(Val(scan.signals[i]).confluences)

\* C25: for an asset without feedback records, a signal with exactly 2
\* confluence labels has a winrate of 85 plus a jitter in [0, 5) and is
\* discarded for its winrate; a signal with 3 labels or more has a winrate
\* of 90 at least and is not discarded for its winrate.
C25_ThreeLabelsPass ==
    \A s \in Sessions : lastScan[s] # NULL =>
        LET scan == Val(lastScan[s])
        IN  \A i \in Instruments :
                (/\ scan.signals[i] # NULL
                 /\ RecordsOf(scan.history, ASSETS[i].name) = <<>>) =>
                    /\ LabelCount(scan, i) >= 2
                    /\ LabelCount(scan, i) = 2 =>
                           /\ WinrateOf(scan, i) >= 85 * 100
                           /\ WinrateOf(scan, i) < 90 * 100
                           /\ DiscardedForWinrate(scan, i)
                           /\ ~Logged(scan.logs, ASSETS[i].name, "analyzed")
                    /\ LabelCount(scan, i) >= 3 =>
                           /\ WinrateOf(scan, i) >= 90 * 100
                           /\ ~DiscardedForWinrate(scan, i)

\* in one cycle a signal of 2 labels drawing the jitter 4.99 is discarded
\* at 89.99 and a signal of 3 labels drawing the jitter 0 passes at 90
C25_Witness ==
    \E s \in Sessions :
        /\ lastScan[s] # NULL
        /\ \E i, j \in Instruments :
               /\ Val(lastScan[s]).signals[i] # NULL
               /\ LabelCount(Val(lastScan[s]), i) = 2
               /\ WinrateOf(Val(lastScan[s]), i) = 90 * 100 - 1
               /\ DiscardedForWinrate(Val(lastScan[s]), i)
               /\ Val(lastScan[s]).signals[j] # NULL
               /\ LabelCount(Val(lastScan[s]), j) = 3
               /\ WinrateOf(Val(lastScan[s]), j) = 90 * 100
               /\ Logged(Val(lastScan[s]).logs, ASSETS[j].name, "analyzed")

\* losses minus wins among the 20 most recent records of an asset
LossMargin(history, name) ==
    LET recent == SliceLast(RecordsOf(history, name), 20)
    IN  Len(SelectSeq(recent, LAMBDA f : f.result = "loss"))
            - Len(SelectSeq(recent, LAMBDA f : f.result = "win"))

\* C24: in a scan performed while the losses exceed the wins by 8 or more
\* among the 20 most recent feedback records of an asset, the asset's
\* signal, if any, has a winrate below 90 and the asset is not the
\* bestSignal; so an asset that is the bestSignal has a difference below 8.
C24_LosingAssetBlocked ==
    \A s \in Sessions : lastScan[s] # NULL =>
        LET scan == Val(lastScan[s])
        IN  \A i \in Instruments :
                LossMargin(scan.history, ASSETS[i].name) >= 8 =>
                    /\ NotBest(scan, ASSETS[i].name)
                    /\ ~Logged(scan.logs, ASSETS[i].name, "analyzed")
                    /\ scan.signals[i] # NULL => WinrateOf(scan, i) < 90 * 100

\* a difference of exactly 8: the signal has five labels and draws the
\* jitter 4.99, its winrate is 88.99 and it is discarded for it
C24_Witness ==
    \E s \in Sessions :
        /\ lastScan[s] # NULL
        /\ \E i \in Instruments :
               /\ LossMargin(Val(lastScan[s]).history, ASSETS[i].name) = 8
               /\ Val(lastScan[s]).signals[i] # NULL
               /\ LabelCount(Val(lastScan[s]), i) = 5
               /\ WinrateOf(Val(lastScan[s]), i) = 89 * 100 - 1
               /\ DiscardedForWinrate(Val(lastScan[s]), i)

\* C21: for each signal the App displays, identified by its timestamp, at
\* most one feedback record is submitted, however the clicks on Win and
\* Loss fall, also while the answer to an earlier submission is pending.
C21_OneFeedbackPerSignal ==
    \A i, j \in DOMAIN http.submitted :
        http.submitted[i].timestamp = http.submitted[j].timestamp => i = j

\* C23: after a scan request isScanning returns to false, in every run,
\* also when the connection closes before the SCAN_RESULT arrives and the
\* App reconnects.
C23_ScanningEnds == client.isScanning ~> ~client.isScanning

\* C27: once the user has muted an asset, the App does not display it as
\* bestSignal until the expiry of the mute has passed, whatever the order of
\* mute clicks, scan requests and SCAN_RESULT messages, a scan on its way
\* when the mute is clicked included.
C27_MutedNotDisplayed ==
    \A a \in DOMAIN client.mutedAssets :
        client.mutedAssets[a] > now =>
            (client.bestSignal = NULL \/ Val(client.bestSignal).asset # a)

Analyzed(scan) ==
    {i \in Instruments : Logged(scan.logs, ASSETS[i].name, "analyzed")}

\* the first instrument, in the order of ASSETS, with the greatest winrate
\* among those logged 'analyzed'
FirstMax(scan) ==
    CHOOSE i \in Analyzed(scan) :
        /\ \A j \in Analyzed(scan) : WinrateOf(scan, j) <= WinrateOf(scan, i)
        /\ \A j \in Analyzed(scan) :
               WinrateOf(scan, j) = WinrateOf(scan, i) => i <= j

\* C3: the bestSignal of a scan is the signal of the first instrument, in
\* the order of ASSETS, whose winrate is the greatest among the instruments
\* logged 'analyzed' in that cycle, and it is absent iff none is logged so.
C3_BestIsFirstMax ==
    \A s \in Sessions : lastScan[s] # NULL =>
        LET scan == Val(lastScan[s])
        IN  /\ (scan.bestSignal = NULL) <=> (Analyzed(scan) = {})
            /\ Analyzed(scan) # {} =>
                   scan.bestSignal = scan.signals[FirstMax(scan)]

\* two analyzed instruments tie at the greatest winrate and the earlier one
\* is the bestSignal
C3_Witness ==
    \E s \in Sessions :
        /\ lastScan[s] # NULL
        /\ \E i, j \in Analyzed(Val(lastScan[s])) :
               /\ i < j
               /\ i = FirstMax(Val(lastScan[s]))
               /\ WinrateOf(Val(lastScan[s]), i) = WinrateOf(Val(lastScan[s]), j)
               /\ Val(Val(lastScan[s]).bestSignal).asset = ASSETS[i].name

\* C4: every bestSignal has winrate >= 90, and every instrument whose
\* signal has winrate < 90 is logged 'discarded' with a reason holding the
\* winrate (as printed, to one decimal) and is not the bestSignal of that
\* cycle.
C4_WinrateFloor ==
    \A s \in Sessions : lastScan[s] # NULL =>
        LET scan == Val(lastScan[s])
        IN  /\ scan.bestSignal # NULL => Val(scan.bestSignal).winrate >= 90 * 100
            /\ \A i \in Instruments :
                   (scan.signals[i] # NULL /\ WinrateOf(scan, i) < 90 * 100) =>
                       /\ Discarded(scan.logs, ASSETS[i].name,
                                    <<"Winrate insuficiente",
                                      (WinrateOf(scan, i) + 5) \div 10>>)
                       /\ ~Logged(scan.logs, ASSETS[i].name, "analyzed")
                       /\ NotBest(scan, ASSETS[i].name)

\* a signal of winrate 89.99 is discarded in a cycle that selects another
C4_Witness ==
    \E s \in Sessions :
        /\ lastScan[s] # NULL
        /\ Val(lastScan[s]).bestSignal # NULL
        /\ \E i \in Instruments :
               /\ Val(lastScan[s]).signals[i] # NULL
               /\ WinrateOf(Val(lastScan[s]), i) = 8999
               /\ Discarded(Val(lastScan[s]).logs, ASSETS[i].name,
                            <<"Winrate insuficiente", 900>>)

\* the requests a connection holds or has last handled
Requests(s) ==
    {wsIn[s][k] : k \in DOMAIN wsIn[s]}
        \cup (IF lastScan[s] = NULL THEN {} ELSE {Val(lastScan[s]).request})

\* C5: an instrument in the muted set of a scan request gets exactly one log
\* entry, 'discarded' with the mute reason, is not analyzed and is not the
\* bestSignal; the client puts an asset in the muted set of a request
\* exactly when its mute expiry is later than the time of the request.
C5_Muted ==
    \A s \in Sessions :
        /\ lastScan[s] # NULL =>
               LET scan == Val(lastScan[s])
               IN  \A i \in Instruments :
                       ASSETS[i].name \in scan.request.mutedAssets =>
                           /\ Len(EntriesOf(scan.logs, ASSETS[i].name)) = 1
                           /\ Discarded(scan.logs, ASSETS[i].name, ReasonMuted)
                           /\ scan.signals[i] = NULL
                           /\ NotBest(scan, ASSETS[i].name)
        /\ \A m \in Requests(s) :
               m.mutedAssets =
                   {a \in DOMAIN m.expiries : m.expiries[a] > m.sentAt}

\* a request naming a muted asset has been handled: the asset is logged
\* discarded for the mute and another asset is selected
C5_Witness ==
    \E s \in Sessions :
        /\ lastScan[s] # NULL
        /\ Val(lastScan[s]).request.mutedAssets # {}
        /\ \E a \in Val(lastScan[s]).request.mutedAssets :
               Discarded(Val(lastScan[s]).logs, a, ReasonMuted)
        /\ Val(lastScan[s]).bestSignal # NULL

\* C6: when config.marketType is REAL or OTC the bestSignal is of that
\* type and every instrument of the other type that is not muted is logged
\* 'discarded' for its market type without being analyzed; when it is GERAL
\* no instrument is discarded for its market type.
C6_MarketType ==
    \A s \in Sessions : lastScan[s] # NULL =>
        LET scan == Val(lastScan[s])
            wanted == scan.request.config.marketType
        IN  IF wanted = "GERAL"
            THEN \A j \in DOMAIN scan.logs :
                     scan.logs[j].reason # ReasonMarketType
            ELSE /\ scan.bestSignal # NULL =>
                        Val(scan.bestSignal).marketType = wanted
                 /\ \A i \in Instruments :
                        (/\ ASSETS[i].name \notin scan.request.mutedAssets
                         /\ ASSETS[i].type # wanted) =>
                            /\ Discarded(scan.logs, ASSETS[i].name,
                                         ReasonMarketType)
                            /\ ~Logged(scan.logs, ASSETS[i].name, "analyzed")
                            /\ scan.signals[i] = NULL

\* an OTC scan selects an OTC instrument and discards a REAL one
C6_Witness ==
    \E s \in Sessions :
        /\ lastScan[s] # NULL
        /\ Val(lastScan[s]).request.config.marketType = "OTC"
        /\ Val(lastScan[s]).bestSignal # NULL
        /\ Discarded(Val(lastScan[s]).logs, "BTCUSD", ReasonMarketType)

\* C8: the log of a scan holds one entry, 'analyzed' or 'discarded', per
\* instrument in the order of ASSETS, followed by one 'selected' entry
\* naming the bestSignal's asset iff a bestSignal is present; the selected
\* asset also has an 'analyzed' entry.
C8_LogShape ==
    \A s \in Sessions : lastScan[s] # NULL =>
        LET scan == Val(lastScan[s])
            n == Len(ASSETS)
        IN  /\ Len(scan.logs) = n + (IF scan.bestSignal = NULL THEN 0 ELSE 1)
            /\ \A i \in Instruments :
                   /\ scan.logs[i].asset = ASSETS[i].name
                   /\ scan.logs[i].status \in {"analyzed", "discarded"}
            /\ scan.bestSignal # NULL =>
                   /\ scan.logs[n + 1].status = "selected"
                   /\ scan.logs[n + 1].asset = Val(scan.bestSignal).asset
                   /\ Logged(scan.logs, Val(scan.bestSignal).asset, "analyzed")

\* a log of |ASSETS| + 1 entries: a discarded instrument, then the selection
C8_Witness ==
    \E s \in Sessions :
        /\ lastScan[s] # NULL
        /\ Val(lastScan[s]).bestSignal # NULL
        /\ Len(Val(lastScan[s]).logs) = Len(ASSETS) + 1
        /\ \E i \in Instruments : Val(lastScan[s]).logs[i].status = "discarded"
        /\ Val(lastScan[s]).logs[Len(ASSETS) + 1].status = "selected"

(***************************************************************************)
(* Properties of the feedback endpoint, stated on the last submission.     *)
(***************************************************************************)
\* the submission names no asset, or its result is not 'win' or 'loss'
Malformed(body) == body.asset = "" \/ body.result \notin {"win", "loss"}

\* C12: a feedback submission whose asset is absent, or whose result is
\* absent or anything other than 'win' or 'loss', is answered with HTTP 400
\* and leaves the in-memory feedback history unchanged.
C12_MalformedRejected ==
    (lastPost # NULL /\ Malformed(Val(lastPost).body)) =>
        /\ Val(lastPost).response.code = 400
        /\ Val(lastPost).after = Val(lastPost).before

\* what the last submission did to the history and what it answered
PostAppends ==
    lastPost # NULL =>
        LET p == Val(lastPost)
        IN  /\ feedbackHistory = p.after
            /\ p.response.code \in {200, 400}
            /\ p.response.code = 200 =>
                   /\ p.after = p.before \o <<[p.body EXCEPT !.timestamp = p.at]>>
                   /\ p.response.historySize = <<Len(p.before) + 1>>
            /\ p.response.code = 400 => p.after = p.before

\* a step keeps every record in its place and adds at most one at the end,
\* and only a submission adds one
OnlyAppends ==
    /\ IsPrefix(feedbackHistory, feedbackHistory')
    /\ Len(feedbackHistory') <= Len(feedbackHistory) + 1
    /\ feedbackHistory' # feedbackHistory => lastPost' # lastPost

\* C13: the feedback history only grows by appending: an accepted
\* submission appends exactly one record at the end, stamped with the
\* server's time, and answers with the new length; no scan, market tick,
\* rejected submission or failed write removes, reorders or changes a
\* record.
C13_AppendOnly == []PostAppends /\ [][OnlyAppends]_vars

\* a submission accepted while the write to disk failed: the history that
\* held records keeps them and has one more
C13_Witness ==
    /\ lastPost # NULL
    /\ Val(lastPost).response.code = 200
    /\ ~Val(lastPost).written
    /\ Len(Val(lastPost).before) >= 1
    /\ feedbackHistory = Append(Val(lastPost).before, feedbackHistory[Len(feedbackHistory)])
    /\ lastScan["app"] # NULL

====
